---- MODULE Spec2Model ----
(***************************************************************************)
(* Student Directory Service (src/utils/studentManager.ts, two revisions:  *)
(* the hosted-backend revision and the hybrid revision that loads the      *)
(* persistence client conditionally).                                      *)
(*                                                                         *)
(* The state is the manual_students table of the persistence service, the  *)
(* clock that stamps added_at, and, per caller, the position of the call   *)
(* it is running (one step per awaited storage or collaborator call), the  *)
(* call's local variables, and the value a call returns in the step that   *)
(* ends it.                                                                *)
(*                                                                         *)
(* Spec runs every operation with calls that do not overlap; SpecWriters   *)
(* interleaves the calls that write; SpecStats interleaves getStudentStats *)
(* with a concurrent writer.                                               *)
(***************************************************************************)
EXTENDS Integers, Sequences, FiniteSets, TLC

VARIABLES
    table,       \* the rows of manual_students
    now,         \* the clock (storage default of added_at, new Date())
    nextId,      \* the next server-assigned id
    configured,  \* whether the persistence client exists (supabase # null)
    serial,      \* whether the callers await each call before the next begins
    pc,          \* pc[p]: where caller p's running call is
    loc,         \* loc[p]: the running call's arguments and locals
    ret          \* what the step just taken returned to its caller, if it ended a call

vars == <<table, now, nextId, configured, serial, pc, loc, ret>>

\* ------------------------------------------------------------------ bounds
\* Rows ever inserted.
MaxIds == 2
\* Clock ticks.
MaxClock == 1
\* Clock ticks in a calendar month.
MonthLen == 1

\* Callers that may run calls concurrently.
Procs == {1, 2}

\* A nullable value is a set with at most one element: null is the empty set.
NULL == {}
Some(x) == {x}
Value(s) == CHOOSE x \in s : TRUE

None == [op |-> "none"]

\* ------------------------------------------------------------------ text
\* Text is a sequence of characters; only these have an upper-case form.
LowerChar(c) ==
    CASE c = "A" -> "a"
      [] c = "B" -> "b"
      [] c = "X" -> "x"
      [] c = "N" -> "n"
      [] c = "O" -> "o"
      [] OTHER -> c

\* String.prototype.toLowerCase
toLowerCase(s) == [i \in DOMAIN s |-> LowerChar(s[i])]

\* String.prototype.includes / the %q% of an ilike pattern
includes(s, q) ==
    \E i \in 0..(Len(s) - Len(q)) : SubSeq(s, i + 1, i + Len(q)) = q

\* name.ilike.%q% : case-insensitive substring match
ilike(s, q) == includes(toLowerCase(s), toLowerCase(q))

\* CreateStudentData values the callers pass (notes and added_by are copied
\* into the row unread and are left out).
Inputs ==
    { [name |-> <<"A", "n">>, email |-> <<"A", "x">>],
      [name |-> <<"A", "n">>, email |-> <<"a", "x">>],
      [name |-> <<"B", "o">>, email |-> <<"b", "X">>] }

Emails == {d.email : d \in Inputs}

Queries == { <<"a">>, <<"X">>, <<"z">> }

Statuses == {"active", "inactive"}

\* ------------------------------------------------------- persistence service
\* A storage request of a configured client resolves to a result object: with
\* data ("ok") or with error set and data null ("err"). It does not reject.
StorageOutcomes == {"ok", "err"}

\* insert(...).select().single(): also "nodata", neither error nor data.
InsertOutcomes == {"ok", "err", "nodata"}

\* supabase.functions.invoke / verifyHotmartPurchase
InvokeOutcomes == {"ok", "err", "throw"}
VerifyOutcomes == {"true", "false", "throw"}

\* .eq('email', e)
eqEmail(rows, e) == {r \in rows : r.email = e}

\* .eq('status', s)
eqStatus(rows, s) == {r \in rows : r.status = s}

\* .single(): data is the row when exactly one row matches, else null (with
\* error PGRST116); a faulted request has data null as well.
single(rows, o) ==
    IF o = "ok" /\ Cardinality(rows) = 1
    THEN rows
    ELSE NULL

\* error of a .single() request: "none", "PGRST116" (no or several rows) or "fault"
singleError(rows, o) ==
    IF o # "ok" THEN "fault"
    ELSE IF Cardinality(rows) = 1 THEN "none" ELSE "PGRST116"

\* select('*', {count: 'exact', head: true}): count, null when the request faults
count(rows, o) == IF o = "ok" THEN Some(Cardinality(rows)) ELSE NULL

\* ---------------------------------------------------------------- results
Returned(op, v) == [op |-> op, ok |-> TRUE, val |-> v]
Raised(op, e) == [op |-> op, ok |-> FALSE, val |-> e]

Idle(p) == pc[p] = "idle"

\* Caller p may begin a call (the result of the call that just ended, if one
\* did, has been taken).
CanCall(p) == ret = None /\ Idle(p) /\ (serial => \A q \in Procs : Idle(q))

\* Caller p's running call is at the awaited request `at`.
At(p, at) == ret = None /\ pc[p] = at

\* Module load: an empty table; the client is created or, in the hybrid
\* revision without its environment variables, null.
InitWith(s) ==
    /\ table = {}
    /\ now = 0
    /\ nextId = 1
    /\ configured \in BOOLEAN
    /\ serial = s
    /\ pc = [p \in Procs |-> "idle"]
    /\ loc = [p \in Procs |-> None]
    /\ ret = None

\* Time passes.
Tick ==
    /\ ret = None
    /\ now < MaxClock
    /\ now' = now + 1
    /\ ret' = None
    /\ UNCHANGED <<table, nextId, configured, serial, pc, loc>>

\* The promise of the call that just ended settles: its caller takes the result.
Resume ==
    /\ ret # None
    /\ ret' = None
    /\ UNCHANGED <<table, now, nextId, configured, serial, pc, loc>>

\* A write that changes the table while a getStudentStats call is between two
\* of its count queries is noted in that call's locals (history only: the code
\* reads no such flag).
Overlapped(l) ==
    [q \in Procs |->
        IF l[q].op = "getStudentStats" THEN [l[q] EXCEPT !.overlap = TRUE] ELSE l[q]]

\* ------------------------------------------------------------- addStudent
\* Lines 7-11: data of the existence lookup (its error is not read).
addStudent_existing(tbl, email, o) == single(eqEmail(tbl, toLowerCase(email)), o)

\* Lines 5-15: the existence lookup and the duplicate test. The locals keep,
\* as history, the lookup's outcome and the next id at the time of the lookup.
addStudent_check(p, d, o) ==
    /\ CanCall(p)
    /\ IF ~configured
       THEN /\ ret' = Raised("addStudent", "TypeError")
            /\ UNCHANGED <<pc, loc>>
       ELSE IF addStudent_existing(table, d.email, o) # NULL
       THEN /\ ret' = Raised("addStudent", "DuplicateEmail")
            /\ UNCHANGED <<pc, loc>>
       ELSE /\ pc' = [pc EXCEPT ![p] = "add_insert"]
            /\ loc' = [loc EXCEPT ![p] = [op |-> "addStudent", d |-> d, lookup |-> o,
                                          checked |-> nextId]]
            /\ ret' = None
    /\ UNCHANGED <<table, now, nextId, configured, serial>>

\* Lines 20-24: the row the insert writes: the caller's data with the email
\* lower-cased and status active; id and added_at are the storage's defaults.
NewRow(d) ==
    [id |-> nextId, name |-> d.name, email |-> toLowerCase(d.email),
     status |-> "active", added_at |-> now]

insert_onConflictDoNothing(rows, row) ==
    IF \E r \in rows : r.email = row.email THEN rows ELSE rows \cup {row}

\* .insert([row]): the table has no unique constraint on email
insert(rows, row) == rows \cup {row}

\* Lines 17-35: the insert.
addStudent_insert(p, o) ==
    /\ At(p, "add_insert")
    /\ IF o = "ok"
       THEN /\ nextId <= MaxIds
            /\ table' = insert(table, NewRow(loc[p].d))
            /\ nextId' = nextId + 1
            /\ pc' = [pc EXCEPT ![p] = "add_email"]
            /\ loc' = [Overlapped(loc) EXCEPT ![p] =
                           [op |-> "addStudent", d |-> loc[p].d,
                            lookup |-> loc[p].lookup, checked |-> loc[p].checked,
                            data |-> NewRow(loc[p].d)]]
            /\ ret' = None
       ELSE /\ pc' = [pc EXCEPT ![p] = "idle"]
            /\ loc' = [loc EXCEPT ![p] = None]
            /\ ret' = Raised("addStudent", "PersistenceError")
            /\ UNCHANGED <<table, nextId>>
    /\ UNCHANGED <<now, configured, serial>>

\* Lines 156-177: the invocation's error is thrown and caught in the function
\* itself; the promise resolves whatever the invocation did.
sendWelcomeEmail(o) ==
    IF o = "ok" THEN "resolved" ELSE "resolved"

welcomeEmail_uncaught(o) ==
    IF o = "ok" THEN "continue" ELSE "raise"

\* Lines 37-43: a rejection of sendWelcomeEmail is caught; addStudent goes on.
welcomeEmail(o) ==
    IF sendWelcomeEmail(o) = "rejected" THEN "continue" ELSE "continue"

\* Lines 37-45: the welcome email, then the created row is returned.
addStudent_email(p, o) ==
    /\ At(p, "add_email")
    /\ pc' = [pc EXCEPT ![p] = "idle"]
    /\ loc' = [loc EXCEPT ![p] = None]
    /\ ret' = IF welcomeEmail(o) = "continue"
              THEN [op |-> "addStudent", ok |-> TRUE, val |-> loc[p].data,
                    email |-> loc[p].d.email, invoke |-> o]
              ELSE Raised("addStudent", "NotificationFault")
    /\ UNCHANGED <<table, now, nextId, configured, serial>>

\* ------------------------------------------------------------ getStudents
\* The sequences that hold each element of S once.
SeqsOf(S) ==
    {s \in [1..Cardinality(S) -> S] : \A i, j \in DOMAIN s : i # j => s[i] # s[j]}

order_unordered(rows) == SeqsOf(rows)

\* .order('added_at', {ascending: false}); rows of equal added_at come in any order
order(rows) ==
    {s \in SeqsOf(rows) : \A i \in 1..(Len(s) - 1) : s[i].added_at >= s[i + 1].added_at}

\* Lines 54-69: what getStudents may return on a table, for the request's outcome.
getStudents_result(tbl, o) ==
    IF configured /\ o = "ok" THEN order(tbl) ELSE {<<>>}

getStudents(p, o) ==
    /\ CanCall(p)
    /\ \E s \in getStudents_result(table, o) :
          ret' = [op |-> "getStudents", ok |-> TRUE, val |-> s, outcome |-> o]
    /\ UNCHANGED <<table, now, nextId, configured, serial, pc, loc>>

\* ---------------------------------------------------------- removeStudent
\* .delete().eq('id', studentId)
delete(rows, id) == {r \in rows : r.id # id}

removeStudent(p, id, o) ==
    /\ CanCall(p)
    /\ IF ~configured
       THEN /\ ret' = Raised("removeStudent", "TypeError")
            /\ UNCHANGED <<table, loc>>
       ELSE IF o = "ok"
       THEN /\ table' = delete(table, id)
            /\ loc' = IF table' # table THEN Overlapped(loc) ELSE loc
            /\ ret' = Returned("removeStudent", id)
       ELSE /\ ret' = Raised("removeStudent", "PersistenceError")
            /\ UNCHANGED <<table, loc>>
    /\ UNCHANGED <<now, nextId, configured, serial, pc>>

\* ---------------------------------------------------- updateStudentStatus
\* .update({ status }).eq('id', studentId)
update(rows, id, status) ==
    {IF r.id = id THEN [r EXCEPT !.status = status] ELSE r : r \in rows}

updateStudentStatus(p, id, status, o) ==
    /\ CanCall(p)
    /\ IF ~configured
       THEN /\ ret' = Raised("updateStudentStatus", "TypeError")
            /\ UNCHANGED <<table, loc>>
       ELSE IF o = "ok"
       THEN /\ table' = update(table, id, status)
            /\ loc' = IF table' # table THEN Overlapped(loc) ELSE loc
            /\ ret' = [op |-> "updateStudentStatus", ok |-> TRUE,
                       val |-> id, status |-> status]
       ELSE /\ ret' = Raised("updateStudentStatus", "PersistenceError")
            /\ UNCHANGED <<table, loc>>
    /\ UNCHANGED <<now, nextId, configured, serial, pc>>

\* ------------------------------------------------------- checkEmailExists
checkEmailExists_local_anyStatus(tbl, email, o) ==
    single(eqEmail(tbl, toLowerCase(email)), o)

\* Lines 112-117: data of the lookup of an active row (its error is not read).
checkEmailExists_local(tbl, email, o) ==
    single(eqStatus(eqEmail(tbl, toLowerCase(email)), "active"), o)

\* Lines 123-129: the collaborator's boolean, or false when it throws.
checkEmailExists_verified(v) ==
    IF v = "throw" THEN FALSE ELSE (v = "true")

\* Lines 109-131: what a call that no write overlaps returns, for the outcomes
\* of its lookup and of the purchase verification.
checkEmailExists_result(tbl, email, o, v) ==
    IF ~configured THEN FALSE
    ELSE IF checkEmailExists_local(tbl, email, o) # NULL THEN TRUE
    ELSE checkEmailExists_verified(v)

\* Lines 110-121 (and the catch, 127-130, when the client is null).
checkEmailExists_lookup(p, email, o) ==
    /\ CanCall(p)
    /\ IF ~configured
       THEN /\ ret' = [op |-> "checkEmailExists", ok |-> TRUE, val |-> FALSE,
                       lookup |-> "throw", verify |-> "none"]
            /\ UNCHANGED <<pc, loc>>
       ELSE IF checkEmailExists_local(table, email, o) # NULL
       THEN /\ ret' = [op |-> "checkEmailExists", ok |-> TRUE, val |-> TRUE,
                       lookup |-> o, verify |-> "none"]
            /\ UNCHANGED <<pc, loc>>
       ELSE /\ pc' = [pc EXCEPT ![p] = "chk_verify"]
            /\ loc' = [loc EXCEPT ![p] =
                          [op |-> "checkEmailExists", email |-> email, lookup |-> o]]
            /\ ret' = None
    /\ UNCHANGED <<table, now, nextId, configured, serial>>

\* Lines 123-130: the purchase verification.
checkEmailExists_verify(p, v) ==
    /\ At(p, "chk_verify")
    /\ pc' = [pc EXCEPT ![p] = "idle"]
    /\ loc' = [loc EXCEPT ![p] = None]
    /\ ret' = [op |-> "checkEmailExists", ok |-> TRUE,
               val |-> checkEmailExists_verified(v),
               lookup |-> loc[p].lookup, verify |-> v]
    /\ UNCHANGED <<table, now, nextId, configured, serial>>

\* ------------------------------------------------------ getStudentByEmail
\* Lines 135-152: the row, or null (the empty set).
getStudentByEmail_result(tbl, email, o) ==
    IF ~configured THEN NULL
    ELSE LET rows == eqStatus(eqEmail(tbl, toLowerCase(email)), "active")
         IN IF singleError(rows, o) \notin {"none", "PGRST116"}
            THEN NULL
            ELSE single(rows, o)

getStudentByEmail(p, email, o) ==
    /\ CanCall(p)
    /\ ret' = [op |-> "getStudentByEmail", ok |-> TRUE,
               val |-> getStudentByEmail_result(table, email, o), email |-> email]
    /\ UNCHANGED <<table, now, nextId, configured, serial, pc, loc>>

\* -------------------------------------------------------- getStudentStats
orZero_sentinel(c) == IF c = NULL THEN -1 ELSE Value(c)

\* count || 0
orZero(c) == IF c = NULL THEN 0 ELSE Value(c)

\* Lines 205-207: midnight of the first day of the current month.
startOfMonth(t) == t - (t % MonthLen)

\* .gte('added_at', t)
gteAddedAt(rows, t) == {r \in rows : r.added_at >= t}

inactiveCount_asActive(tbl, o) == count(eqStatus(tbl, "active"), o)

\* Lines 199-202
inactiveCount(tbl, o) == count(eqStatus(tbl, "inactive"), o)

Zeros == [total |-> 0, active |-> 0, inactive |-> 0, addedThisMonth |-> 0]

\* Lines 186-190 (and the catch, 220-228, when the client is null).
getStudentStats_total(p, o) ==
    /\ CanCall(p)
    /\ IF ~configured
       THEN /\ ret' = [op |-> "getStudentStats", ok |-> TRUE, val |-> Zeros,
                       faults |-> {"total"}, thrown |-> TRUE, overlap |-> FALSE]
            /\ UNCHANGED <<pc, loc>>
       ELSE /\ pc' = [pc EXCEPT ![p] = "stats_active"]
            /\ loc' = [loc EXCEPT ![p] =
                          [op |-> "getStudentStats", total |-> count(table, o),
                           active |-> NULL, inactive |-> NULL, overlap |-> FALSE]]
            /\ ret' = None
    /\ UNCHANGED <<table, now, nextId, configured, serial>>

\* Lines 192-196
getStudentStats_active(p, o) ==
    /\ At(p, "stats_active")
    /\ pc' = [pc EXCEPT ![p] = "stats_inactive"]
    /\ loc' = [loc EXCEPT ![p].active = count(eqStatus(table, "active"), o)]
    /\ ret' = None
    /\ UNCHANGED <<table, now, nextId, configured, serial>>

\* Lines 198-202
getStudentStats_inactive(p, o) ==
    /\ At(p, "stats_inactive")
    /\ pc' = [pc EXCEPT ![p] = "stats_month"]
    /\ loc' = [loc EXCEPT ![p].inactive = inactiveCount(table, o)]
    /\ ret' = None
    /\ UNCHANGED <<table, now, nextId, configured, serial>>

\* Lines 204-219
getStudentStats_month(p, o) ==
    /\ At(p, "stats_month")
    /\ LET addedThisMonth == count(gteAddedAt(table, startOfMonth(now)), o)
           raw == [total |-> loc[p].total, active |-> loc[p].active,
                   inactive |-> loc[p].inactive, addedThisMonth |-> addedThisMonth]
       IN ret' = [op |-> "getStudentStats", ok |-> TRUE,
                  val |-> [f \in DOMAIN raw |-> orZero(raw[f])],
                  faults |-> {f \in DOMAIN raw : raw[f] = NULL},
                  thrown |-> FALSE, overlap |-> loc[p].overlap]
    /\ pc' = [pc EXCEPT ![p] = "idle"]
    /\ loc' = [loc EXCEPT ![p] = None]
    /\ UNCHANGED <<table, now, nextId, configured, serial>>

\* --------------------------------------------------------- searchStudents
\* .or(`name.ilike.%q%,email.ilike.%q%`)
orIlike(rows, q) == {r \in rows : ilike(r.name, q) \/ ilike(r.email, q)}

\* Records the browser's local list may hold; no operation of the hybrid
\* revision writes that list.
LocalRows ==
    {[id |-> "l1", name |-> <<"A", "n">>, email |-> <<"a", "x">>,
      status |-> "active", added_at |-> 0],
     [id |-> "l2", name |-> <<"B", "o">>, email |-> <<"b", "x">>,
      status |-> "inactive", added_at |-> MaxClock]}

\* getStudentsLocal is called at part_000 line 268 and defined in the
\* local-storage revision: the local list of all records, most recent first.
getStudentsLocal == UNION {order(S) : S \in SUBSET LocalRows}

\* students.filter(s => s.name.toLowerCase().includes(query.toLowerCase()) ||
\*                      s.email.toLowerCase().includes(query.toLowerCase()))
filter(students, q) ==
    SelectSeq(students, LAMBDA r : \/ includes(toLowerCase(r.name), toLowerCase(q))
                                  \/ includes(toLowerCase(r.email), toLowerCase(q)))

\* part_000 lines 265-290 (studentManager.ts 233-249 is its configured branch).
\* With no client, line 268 calls getStudentsLocal. The hybrid module neither
\* defines nor imports it, so as the module stands the call throws a
\* ReferenceError and the catch returns []; with the local-storage revision's
\* definition in scope the filtered local list is returned.
searchStudents_result(tbl, q, o) ==
    IF ~configured THEN {<<>>} \cup {filter(students, q) : students \in getStudentsLocal}
    ELSE IF o = "ok" THEN order(orIlike(tbl, q)) ELSE {<<>>}

searchStudents(p, q, o) ==
    /\ CanCall(p)
    /\ \E s \in searchStudents_result(table, q, o) :
          ret' = [op |-> "searchStudents", ok |-> TRUE, val |-> s, query |-> q]
    /\ UNCHANGED <<table, now, nextId, configured, serial, pc, loc>>

\* ------------------------------------------------------------------ steps
\* One step of some caller: a call begins with its first request, or goes on.
Next ==
    \/ Tick
    \/ Resume
    \/ \E p \in Procs, d \in Inputs, o \in StorageOutcomes : addStudent_check(p, d, o)
    \/ \E p \in Procs, o \in InsertOutcomes : addStudent_insert(p, o)
    \/ \E p \in Procs, o \in InvokeOutcomes : addStudent_email(p, o)
    \/ \E p \in Procs, o \in StorageOutcomes : getStudents(p, o)
    \/ \E p \in Procs, id \in 1..MaxIds, o \in StorageOutcomes : removeStudent(p, id, o)
    \/ \E p \in Procs, id \in 1..MaxIds, st \in Statuses, o \in StorageOutcomes :
          updateStudentStatus(p, id, st, o)
    \/ \E p \in Procs, e \in Emails, o \in StorageOutcomes : checkEmailExists_lookup(p, e, o)
    \/ \E p \in Procs, v \in VerifyOutcomes : checkEmailExists_verify(p, v)
    \/ \E p \in Procs, e \in Emails, o \in StorageOutcomes : getStudentByEmail(p, e, o)
    \/ \E p \in Procs, o \in StorageOutcomes : getStudentStats_total(p, o)
    \/ \E p \in Procs, o \in StorageOutcomes : getStudentStats_active(p, o)
    \/ \E p \in Procs, o \in StorageOutcomes : getStudentStats_inactive(p, o)
    \/ \E p \in Procs, o \in StorageOutcomes : getStudentStats_month(p, o)
    \/ \E p \in Procs, q \in Queries, o \in StorageOutcomes : searchStudents(p, q, o)

\* Calls do not overlap: each call completes before the next begins.
Init == InitWith(TRUE)

Spec == Init /\ [][Next]_vars

InitConcurrent == InitWith(FALSE)

\* Calls of addStudent, removeStudent and updateStudentStatus by the callers
\* in W interleave request by request.
Writes(W) ==
    \/ \E p \in W, d \in Inputs, o \in StorageOutcomes : addStudent_check(p, d, o)
    \/ \E p \in W, o \in InsertOutcomes : addStudent_insert(p, o)
    \/ \E p \in W, o \in InvokeOutcomes : addStudent_email(p, o)
    \/ \E p \in W, id \in 1..MaxIds, o \in StorageOutcomes : removeStudent(p, id, o)
    \/ \E p \in W, id \in 1..MaxIds, st \in Statuses, o \in StorageOutcomes :
          updateStudentStatus(p, id, st, o)

\* Concurrent writers: every caller runs the calls that write.
NextWriters ==
    \/ Tick
    \/ Resume
    \/ Writes(Procs)

SpecWriters == InitConcurrent /\ [][NextWriters]_vars

\* A caller of getStudentStats and a concurrent writer.
StatsCallers == {1}
Writers == {2}

NextStats ==
    \/ Tick
    \/ Resume
    \/ Writes(Writers)
    \/ \E p \in StatsCallers, o \in StorageOutcomes : getStudentStats_total(p, o)
    \/ \E p \in StatsCallers, o \in StorageOutcomes : getStudentStats_active(p, o)
    \/ \E p \in StatsCallers, o \in StorageOutcomes : getStudentStats_inactive(p, o)
    \/ \E p \in StatsCallers, o \in StorageOutcomes : getStudentStats_month(p, o)

SpecStats == InitConcurrent /\ [][NextStats]_vars

\* ================================================================== claims
SameEmail(e1, e2) == toLowerCase(e1) = toLowerCase(e2)

IsSortedDesc(s) == \A i \in 1..(Len(s) - 1) : s[i].added_at >= s[i + 1].added_at

StatFields == {"total", "active", "inactive", "addedThisMonth"}

\* C1: a call of addStudent made while some row (of any status) holds its
\* lower-cased email fails and performs no write, also when its existence lookup
\* faulted or matched several rows. With calls that do not overlap: whenever a
\* call has inserted its row, no other row holds that row's email.
C1_DuplicateNeverInserted ==
    \A p \in Procs :
        pc[p] = "add_email" => eqEmail(table, loc[p].data.email) = {loc[p].data}

\* C2: with calls that do not overlap, and storage requests free to fault, no
\* two rows hold the same email compared case-insensitively, whatever their
\* status, and every stored email is in lower case.
C2_EmailUnique ==
    /\ \A r1, r2 \in table : SameEmail(r1.email, r2.email) => r1 = r2
    /\ \A r \in table : r.email = toLowerCase(r.email)

\* Two concurrent addStudent calls with case-insensitively equal emails have
\* both passed an unfaulted existence check before either insert committed (each
\* row's id was not yet assigned at the other call's check), and both inserts
\* have succeeded.
BothInserted(p, q) ==
    /\ p # q
    /\ pc[p] = "add_email" /\ pc[q] = "add_email"
    /\ loc[p].lookup = "ok" /\ loc[q].lookup = "ok"
    /\ loc[p].data.id >= loc[q].checked /\ loc[q].data.id >= loc[p].checked
    /\ SameEmail(loc[p].d.email, loc[q].d.email)

\* C3: when two concurrent addStudent calls with case-insensitively equal emails
\* both pass the existence check before either insert commits and both inserts
\* succeed, the table holds two distinct rows with the same (lower-cased) email.
C3_RaceLeavesTwoRows ==
    \A p, q \in Procs :
        BothInserted(p, q) =>
            /\ loc[p].data # loc[q].data
            /\ {loc[p].data, loc[q].data} \subseteq table
            /\ loc[p].data.email = toLowerCase(loc[p].d.email)
            /\ loc[q].data.email = loc[p].data.email

\* C3 witness: the race has happened: two rows with one email are in the table.
C3_RaceReached ==
    \E p, q \in Procs :
        /\ BothInserted(p, q)
        /\ loc[p].d.email # loc[q].d.email
        /\ Cardinality(eqEmail(table, loc[p].data.email)) = 2

\* C4: when addStudent(e) has returned and nothing was written since,
\* getStudentByEmail(e') of every letter-case variant e' of e (its lookup not
\* faulting) returns the row addStudent returned, with email lowercase(e) and
\* status active.
C4_AddThenGetByEmail ==
    (ret.op = "addStudent" /\ ret.ok) =>
        \A e \in Emails :
            SameEmail(e, ret.email) =>
                /\ getStudentByEmail_result(table, e, "ok") = Some(ret.val)
                /\ ret.val.email = toLowerCase(ret.email)
                /\ ret.val.status = "active"

\* updateStudentStatus(id, 'inactive') has just succeeded on the existing row r,
\* the only row with its email.
Deactivated(r) ==
    /\ ret.op = "updateStudentStatus" /\ ret.ok /\ ret.status = "inactive"
    /\ r \in table /\ r.id = ret.val
    /\ eqEmail(table, r.email) = {r}

\* C5: right after that, the local lookup of checkEmailExists of r's email (in
\* any letter case, whatever the lookup's outcome) matches no row, so that
\* checkEmailExists returns the boolean the purchase verification returns; and
\* getStudents (its request not faulting) still returns r, with status inactive.
C5_InactiveHiddenFromCheck ==
    \A r \in table :
        Deactivated(r) =>
            /\ \A e \in Emails, o \in StorageOutcomes, v \in {"true", "false"} :
                  toLowerCase(e) = r.email =>
                      /\ checkEmailExists_local(table, e, o) = NULL
                      /\ checkEmailExists_result(table, e, o, v) = (v = "true")
            /\ \A s \in getStudents_result(table, "ok") :
                  \E i \in DOMAIN s : s[i].id = r.id /\ s[i].status = "inactive"

\* C5 witness: a row that was active has just been made inactive.
C5_Deactivated ==
    \E r \in table : Deactivated(r) /\ r.status = "inactive" /\ Cardinality(table) = 2

\* C6: once the insert has returned a created row, the step that sends the
\* welcome email ends the call by returning that row, whatever the invocation
\* did, and writes nothing: the row stays in the table.
C6_WelcomeFailureIgnored ==
    [][\A p \in Procs :
          (pc[p] = "add_email" /\ pc'[p] # "add_email") =>
              /\ ret'.op = "addStudent" /\ ret'.ok
              /\ ret'.val = loc[p].data
              /\ table' = table
              /\ (serial => ret'.val \in table')]_vars

\* C6 witness: addStudent has returned its row although the invocation failed.
C6_ReturnedDespiteFailure ==
    /\ ret.op = "addStudent" /\ ret.ok
    /\ ret.invoke \in {"err", "throw"}
    /\ ret.val \in table

\* C7: checkEmailExists never raises; it returns false whenever a step in it
\* faulted (the lookup or the purchase verification); and when the lookup
\* succeeded and found no active row it returns the collaborator's boolean.
C7_FaultMeansFalse ==
    ret.op = "checkEmailExists" =>
        /\ ret.ok
        /\ (ret.lookup # "ok" \/ ret.verify = "throw") => ret.val = FALSE
        /\ (ret.lookup = "ok" /\ ret.verify \in {"true", "false"}) =>
               ret.val = (ret.verify = "true")

\* C8: getStudentStats never raises and returns four numbers; a count query
\* that faults contributes 0 to its own field; when storage faults throughout
\* the call (every query faults, or the client throws) the result is all zeros.
C8_StatsNeverFail ==
    ret.op = "getStudentStats" =>
        /\ ret.ok
        /\ DOMAIN ret.val = StatFields
        /\ \A f \in StatFields : ret.val[f] \in Nat
        /\ \A f \in ret.faults : ret.val[f] = 0
        /\ (ret.thrown \/ ret.faults = StatFields) => ret.val = Zeros

\* C8 witness: one count query faulted and another field is not zero.
C8_PartialFault ==
    /\ ret.op = "getStudentStats"
    /\ ret.faults = {"active"}
    /\ ret.val.total = 2 /\ ret.val.active = 0 /\ ret.val.inactive = 1

StatsUnfaulted == ret.op = "getStudentStats" /\ ~ret.thrown /\ ret.faults = {}

StatsConsistent ==
    /\ ret.val.total = ret.val.active + ret.val.inactive
    /\ ret.val.addedThisMonth <= ret.val.total

\* C10 as stated: every getStudentStats call none of whose count queries faults
\* returns total = active + inactive and addedThisMonth <= total, however its
\* queries interleave with concurrent writes.
C10_AsStated == StatsUnfaulted => StatsConsistent

\* C10 amended: the same, for the calls during which no write changed the table
\* between the first and the last count query.
C10_ConsistentWithoutOverlap == (StatsUnfaulted /\ ~ret.overlap) => StatsConsistent

\* C10 witness: such a call returned counts of a table with an inactive row while
\* the other caller's call was in flight.
C10_QuietStats ==
    /\ StatsUnfaulted /\ ~ret.overlap
    /\ ret.val.total = 2 /\ ret.val.inactive = 1
    /\ \E q \in Procs : pc[q] # "idle"
====
